---- MODULE Spec2Model ----
(***************************************************************************)
(* Batch accumulator of convex-batch-processor (component/lib.ts).         *)
(*                                                                         *)
(* Every Convex mutation or query is one atomic step (a serializable       *)
(* transaction).  An action (maybeFlush, executeFlush) is a sequence of    *)
(* such steps, so other operations interleave between its transactions.   *)
(* Date.now() is the variable now, which never decreases.  A scheduled     *)
(* function may run at any moment from its due time on; cancelling a       *)
(* handle removes the function if it has not started yet.                  *)
(***************************************************************************)
EXTENDS Integers, Sequences, FiniteSets, Bags, TLC

\* ---------------------------------------------------------------- bounds
MaxEvents == 3       \* events of the environment: addItems calls, pending
                     \* manual flushes, clock ticks, processBatch failures

\* ------------------------------------------------------------- constants
None == 0            \* an absent optional value (undefined)
NoTime == -1         \* an absent timestamp (undefined)

BaseIds == {"e"}

\* the numbers of items one addItems call carries: none, or one item, which
\* is below the threshold 2 and reaches the threshold 1
CallSizes == {0, 1}

\* The configurations a BatchProcessor is constructed with: interval flushing
\* under the deprecated maxBatchSize, size flushing alone, and both.
Configs ==
    { [immediateFlushThreshold |-> None, maxBatchSize |-> 2, flushIntervalMs |-> 1],
      [immediateFlushThreshold |-> 1, maxBatchSize |-> 2, flushIntervalMs |-> 0],
      [immediateFlushThreshold |-> 1, maxBatchSize |-> 2, flushIntervalMs |-> 1] }

VARIABLES
    config,        \* the config every addItems call of this processor passes
    now,           \* Date.now()
    batches,       \* table batches: document id -> document
    batchItems,    \* table batchItems: document id -> document
    flushHistory,  \* table flushHistory, in insertion order
    sched,         \* pending scheduled maybeFlush calls
    flights,       \* executeFlush invocations in progress (a bag)
    nextBatchDoc,  \* number of batch documents inserted so far
    nextChunk,     \* number of batchItems documents inserted so far
    calls,         \* item -> outcomes of the processBatch invocations given it;
                   \* the items added so far are 1..Len(calls)
    assigned,      \* baseId -> sequence numbers given to created batches
    fails          \* processBatch invocations that raised so far

vars == <<config, now, batches, batchItems, flushHistory, sched, flights,
          nextBatchDoc, nextChunk, calls, assigned, fails>>

\* ------------------------------------------------------------- helpers
Min(S) == CHOOSE x \in S : \A y \in S : x <= y
Max(S) == CHOOSE x \in S : \A y \in S : x >= y

RECURSIVE SumOver(_, _)
SumOver(f, S) == IF S = {} THEN 0
                 ELSE LET x == CHOOSE y \in S : TRUE
                      IN f[x] + SumOver(f, S \ {x})

\* batch ids: <<base>> is a bare base id, <<base, n>> is `${base}::${n}`
FullId(base, n) == <<base, n>>
BatchIdArgs == { <<b>> : b \in BaseIds } \cup
               { FullId(b, n) : b \in BaseIds, n \in 0..1 }

\* batchId.includes("::") ? batchId.split("::")[0] : batchId
BaseBatchIdOf(batchId) == batchId[1]

\* config.immediateFlushThreshold ?? config.maxBatchSize
Threshold(cfg) == IF cfg.immediateFlushThreshold # None
                  THEN cfg.immediateFlushThreshold
                  ELSE cfg.maxBatchSize

\* withIndex("by_baseBatchId_status", eq baseBatchId, eq status)
ByBaseStatus(base, status) ==
    { d \in DOMAIN batches : batches[d].baseBatchId = base /\ batches[d].status = status }

\* withIndex("by_batchId", eq batchId)
ByBatchId(batchId) == { d \in DOMAIN batches : batches[d].batchId = batchId }

\* withIndex("by_batchDocId", eq batchDocId)
ChunksOf(d) == { c \in DOMAIN batchItems : batchItems[c].batchDocId = d }

\* withIndex("by_batchDocId_createdAt", eq batchDocId, lt createdAt bound)
ChunksBefore(d, bound) == { c \in ChunksOf(d) : batchItems[c].createdAt < bound }

\* batchItemDocs.reduce((sum, doc) => sum + doc.itemCount, 0)
CountOf(S) == SumOver([c \in DOMAIN batchItems |-> batchItems[c].itemCount], S)
TotalCount(d) == CountOf(ChunksOf(d))

\* order("desc").first() of by_baseBatchId_sequence: the highest sequence
LatestSequenceAmongActive(base) ==
    LET S == { batches[d].sequence :
                 d \in { x \in DOMAIN batches : /\ batches[x].baseBatchId = base
                                                /\ batches[x].status # "completed" } }
    IN IF S = {} THEN -1 ELSE Max(S)
LatestSequence(base) ==
    LET S == { batches[d].sequence : d \in { x \in DOMAIN batches : batches[x].baseBatchId = base } }
    IN IF S = {} THEN -1 ELSE Max(S)

\* the items of the documents of S, flattened in index order
FlattenFirst(S) == IF S = {} THEN << >> ELSE batchItems[Min(S)].items
RECURSIVE Flatten(_)
Flatten(S) ==
    IF S = {} THEN << >>
    ELSE LET c == CHOOSE x \in S : \A y \in S :
                     \/ batchItems[x].createdAt < batchItems[y].createdAt
                     \/ batchItems[x].createdAt = batchItems[y].createdAt /\ x <= y
         IN batchItems[c].items \o Flatten(S \ {c})

Range(s) == { s[i] : i \in 1..Len(s) }

\* the events of the environment so far
Events ==
    nextChunk + fails + now + Cardinality({ s \in sched : s.force /\ s.delay = 0 })

\* a handle that no function pending in S and no batch document holds
FreshHandleIn(S) ==
    Min({ h \in 1..(4 * MaxEvents + 2) :
            /\ \A s \in S : s.id # h
            /\ \A d \in DOMAIN batches : batches[d].scheduledFlushId # h })
FreshHandle == FreshHandleIn(sched)

\* ctx.scheduler.runAfter(delay, internal.lib.maybeFlush, {batchDocId, force})
Scheduled(id, delay, d, force) ==
    [id |-> id, delay |-> delay, runAt |-> now + delay, batchDocId |-> d,
     force |-> force]

\* ctx.scheduler.cancel(id)
CancelNothing(S, id) == S
Cancel(S, id) == { s \in S : s.id # id }

\* ------------------------------------------------------------- Init
Init ==
    /\ config \in Configs
    /\ now = 0
    /\ batches = << >>
    /\ batchItems = << >>
    /\ flushHistory = << >>
    /\ sched = {}
    /\ flights = EmptyBag
    /\ nextBatchDoc = 0
    /\ nextChunk = 0
    /\ calls = << >>
    /\ assigned = [b \in BaseIds |-> << >>]
    /\ fails = 0

\* time passes: as an event of the environment, or towards the due time of a
\* pending function
Tick ==
    /\ Events < MaxEvents \/ \E s \in sched : s.runAt > now
    /\ now' = now + 1
    /\ UNCHANGED <<config, batches, batchItems, flushHistory, sched, flights,
                   nextBatchDoc, nextChunk, calls, assigned, fails>>

\* ------------------------------------------------------------- addItems
\* the batches addItems may append to: the accumulating ones of the base id
OpenOrFlushing(base) ==
    ByBaseStatus(base, "accumulating") \cup ByBaseStatus(base, "flushing")
OpenBatches(base) == ByBaseStatus(base, "accumulating")

\* threshold !== undefined && items.length >= threshold
SizeTriggeredAbove(cfg, n) == Threshold(cfg) # None /\ n > Threshold(cfg)
SizeTriggered(cfg, n) == Threshold(cfg) # None /\ n >= Threshold(cfg)

\* addItems arms the interval timer in the branch that creates the batch, if
\* (config.flushIntervalMs > 0)
ArmsTimerOnEveryAdd(create, cfg) == cfg.flushIntervalMs > 0
ArmsTimer(create, cfg) == create /\ cfg.flushIntervalMs > 0

\* ctx.scheduler.runAfter(0, internal.lib.maybeFlush, {batchDocId}): the
\* attempt addItems schedules for a large call carries no force flag
SizeAttemptForced(h, d) == Scheduled(h, 0, d, TRUE)
SizeAttempt(h, d) == Scheduled(h, 0, d, FALSE)

\* what addItems(batchId, items, config) returns
AddItemsResult(batchId, n) ==
    [batchId |-> BaseBatchIdOf(batchId), itemCount |-> n,
     flushed |-> FALSE, status |-> "accumulating"]

\* the batch document addItems appends to: the first accumulating one, else
\* the one it inserts
AddItemsTarget(batchId) ==
    IF OpenBatches(BaseBatchIdOf(batchId)) = {}
    THEN nextBatchDoc + 1
    ELSE Min(OpenBatches(BaseBatchIdOf(batchId)))

\* mutation addItems(batchId, items, config); the call carries n new items
AddItems(batchId, n) ==
    LET base == BaseBatchIdOf(batchId)
        acc == OpenBatches(base)
        create == acc = {}
        newDoc == nextBatchDoc + 1
        doc == AddItemsTarget(batchId)
        nextSequence == LatestSequence(base) + 1
        timer == ArmsTimer(create, config)
        h1 == FreshHandle
        created == [batchId |-> FullId(base, nextSequence),
                    baseBatchId |-> base,
                    sequence |-> nextSequence,
                    status |-> "accumulating",
                    config |-> config,
                    scheduledFlushId |-> IF timer THEN h1 ELSE None,
                    flushStartedAt |-> NoTime]
        sched1 == IF timer
                  THEN sched \cup {Scheduled(h1, config.flushIntervalMs, doc, TRUE)}
                  ELSE sched
        size == SizeTriggered(config, n)
        h2 == FreshHandleIn(sched1)
        chunk == nextChunk + 1
        items == [i \in 1..n |-> Len(calls) + i]
    IN
    /\ Events < MaxEvents
    /\ batches' = IF create
                  THEN [d \in DOMAIN batches \cup {newDoc} |->
                          IF d = newDoc THEN created ELSE batches[d]]
                  ELSE batches
    /\ nextBatchDoc' = IF create THEN newDoc ELSE nextBatchDoc
    /\ assigned' = IF create
                   THEN [assigned EXCEPT ![base] = Append(@, nextSequence)]
                   ELSE assigned
    /\ batchItems' = [c \in DOMAIN batchItems \cup {chunk} |->
                        IF c = chunk
                        THEN [batchDocId |-> doc, items |-> items,
                              itemCount |-> n, createdAt |-> now]
                        ELSE batchItems[c]]
    /\ nextChunk' = chunk
    /\ calls' = calls \o [i \in 1..n |-> << >>]
    /\ sched' = IF size
                THEN sched1 \cup {SizeAttempt(h2, doc)}
                ELSE sched1
    /\ UNCHANGED <<config, now, flushHistory, flights, fails>>

\* ------------------------------------------------------------- flushBatch
\* the batch document flushBatch(batchId) resolves: the one with that batchId,
\* else the accumulating one of a bare base id
FlushBatchTargetExactOnly(batchId) ==
    IF ByBatchId(batchId) # {} THEN Min(ByBatchId(batchId)) ELSE None
FlushBatchTarget(batchId) ==
    IF ByBatchId(batchId) # {} THEN Min(ByBatchId(batchId))
    ELSE IF ByBaseStatus(batchId[1], "accumulating") # {} /\ Len(batchId) = 1
         THEN Min(ByBaseStatus(batchId[1], "accumulating"))
         ELSE None

\* what flushBatch(batchId) returns or throws
FlushBatchResult(batchId) ==
    LET d == FlushBatchTarget(batchId)
    IN IF d = None
       THEN [flushed |-> FALSE, reason |-> "throw: not found", itemCount |-> 0]
       ELSE IF batches[d].status # "accumulating"
       THEN [flushed |-> FALSE, reason |-> "throw: not accumulating", itemCount |-> 0]
       ELSE IF TotalCount(d) = 0
       THEN [flushed |-> FALSE, reason |-> "Batch is empty", itemCount |-> 0]
       ELSE [flushed |-> TRUE, reason |-> "flushing", itemCount |-> TotalCount(d)]

\* mutation flushBatch(batchId): the manual flush
FlushBatch(batchId) ==
    IF FlushBatchResult(batchId).flushed
    THEN /\ Events < MaxEvents
         /\ sched' = sched \cup
                {Scheduled(FreshHandle, 0, FlushBatchTarget(batchId), TRUE)}
         /\ UNCHANGED <<config, now, batches, batchItems, flushHistory, flights,
                        nextBatchDoc, nextChunk, calls, assigned, fails>>
    ELSE UNCHANGED vars

\* ------------------------------------------------------------- deleteBatch
\* the documents a table keeps when the documents S are deleted
WithoutDocs(f, S) == [x \in DOMAIN f \ S |-> f[x]]

\* the refusals of deleteBatch for an existing batch document
DeleteRefusedFlushingOnly(d) ==
    IF batches[d].status = "flushing" THEN "Cannot delete batch while flushing"
    ELSE ""
DeleteRefused(d) ==
    IF batches[d].status = "flushing" THEN "Cannot delete batch while flushing"
    ELSE IF batches[d].status = "accumulating" /\ TotalCount(d) > 0
         THEN "Cannot delete batch with pending items"
         ELSE ""

\* what deleteBatch(batchId) returns
DeleteBatchResult(batchId) ==
    IF ByBatchId(batchId) = {}
    THEN [deleted |-> FALSE, reason |-> "Batch not found"]
    ELSE IF DeleteRefused(Min(ByBatchId(batchId))) # ""
    THEN [deleted |-> FALSE, reason |-> DeleteRefused(Min(ByBatchId(batchId)))]
    ELSE [deleted |-> TRUE]

\* the batchItems documents deleteBatch deletes with batch document d
DeletedChunksNone(d) == {}
DeletedChunks(d) == ChunksOf(d)

\* mutation deleteBatch(batchId)
DeleteBatch(batchId) ==
    IF DeleteBatchResult(batchId).deleted
    THEN LET d == Min(ByBatchId(batchId))
         IN /\ sched' = IF batches[d].scheduledFlushId # None
                        THEN Cancel(sched, batches[d].scheduledFlushId)
                        ELSE sched
            /\ batchItems' = WithoutDocs(batchItems, DeletedChunks(d))
            /\ batches' = WithoutDocs(batches, {d})
            /\ UNCHANGED <<config, now, flushHistory, flights,
                           nextBatchDoc, nextChunk, calls, assigned, fails>>
    ELSE UNCHANGED vars

\* ------------------------------------------------------------- getBatchStatus
\* the documents of S in index order (by creation), as collect() returns them
RECURSIVE Collected(_)
Collected(S) ==
    IF S = {} THEN << >> ELSE <<Min(S)>> \o Collected(S \ {Min(S)})

\* activeBatches = [...flushingBatches, ...accumulatingBatches]
ActiveBatchesAccumulatingOnly(base) == Collected(ByBaseStatus(base, "accumulating"))
ActiveBatches(base) ==
    Collected(ByBaseStatus(base, "flushing")) \o
    Collected(ByBaseStatus(base, "accumulating"))

\* query getBatchStatus(batchId): null, or the active generations of the base
\* id with item counts summed over their batchItems documents
GetBatchStatus(batchId) ==
    LET baseBatchId == BaseBatchIdOf(batchId)
        activeBatches == ActiveBatches(baseBatchId)
        cfg == batches[activeBatches[1]].config
    IN IF Len(activeBatches) = 0
       THEN [null |-> TRUE]
       ELSE [null |-> FALSE,
             batchId |-> baseBatchId,
             batches |-> [i \in 1..Len(activeBatches) |->
                            [status |-> batches[activeBatches[i]].status,
                             itemCount |-> TotalCount(activeBatches[i])]],
             config |-> [immediateFlushThreshold |-> cfg.immediateFlushThreshold,
                         maxBatchSize |-> cfg.maxBatchSize,
                         flushIntervalMs |-> cfg.flushIntervalMs]]

\* ------------------------------------------------------------- maybeFlush
\* if (totalCount === 0) return {flushed: false, reason: "empty"}
EmptyRefusedUnlessForced(d, force) == ~force /\ TotalCount(d) = 0
EmptyRefused(d, force) == TotalCount(d) = 0

\* what doFlushTransition(batchDocId, force) returns in the current state
DoFlushTransitionUnguarded(d, force) ==
    IF d \notin DOMAIN batches
    THEN [flushed |-> FALSE, reason |-> "not_accumulating", itemCount |-> 0]
    ELSE IF EmptyRefused(d, force)
    THEN [flushed |-> FALSE, reason |-> "empty", itemCount |-> 0]
    ELSE IF ~force /\ Threshold(batches[d].config) # None
                   /\ TotalCount(d) < Threshold(batches[d].config)
    THEN [flushed |-> FALSE, reason |-> "below_threshold", itemCount |-> TotalCount(d)]
    ELSE [flushed |-> TRUE, reason |-> "flushed", itemCount |-> TotalCount(d)]
DoFlushTransitionResult(d, force) ==
    IF d \notin DOMAIN batches \/ batches[d].status # "accumulating"
    THEN [flushed |-> FALSE, reason |-> "not_accumulating", itemCount |-> 0]
    ELSE IF EmptyRefused(d, force)
    THEN [flushed |-> FALSE, reason |-> "empty", itemCount |-> 0]
    ELSE IF ~force /\ Threshold(batches[d].config) # None
                   /\ TotalCount(d) < Threshold(batches[d].config)
    THEN [flushed |-> FALSE, reason |-> "below_threshold", itemCount |-> TotalCount(d)]
    ELSE [flushed |-> TRUE, reason |-> "flushed", itemCount |-> TotalCount(d)]

\* the patch doFlushTransition applies when it transitions
FlushingPatchNoStatus(b) ==
    [b EXCEPT !.flushStartedAt = now,
              !.scheduledFlushId = None]
FlushingPatchKeepsHandle(b) ==
    [b EXCEPT !.status = "flushing",
              !.flushStartedAt = now]
FlushingPatch(b) ==
    [b EXCEPT !.status = "flushing",
              !.flushStartedAt = now,
              !.scheduledFlushId = None]

\* an executeFlush invocation that maybeFlush has just started
NewFlight(d) ==
    [batchDocId |-> d, pc |-> "start", items |-> << >>,
     flushStartedAt |-> NoTime, success |-> TRUE]

\* if (result.flushed) await ctx.runAction(internal.lib.executeFlush, ...)
StartedFlightsNone(d) == EmptyBag
StartedFlights(d) == SetToBag({NewFlight(d)})

\* action maybeFlush(batchDocId, force), started by the scheduler: it runs the
\* mutation doFlushTransition and, when that flushed, goes on to executeFlush
MaybeFlush(s) ==
    LET d == s.batchDocId
        r == DoFlushTransitionResult(d, s.force)
        started == sched \ {s}
    IN
    /\ s \in sched
    /\ now >= s.runAt
    /\ IF r.flushed
       THEN /\ sched' = IF batches[d].scheduledFlushId # None
                        THEN Cancel(started, batches[d].scheduledFlushId)
                        ELSE started
            /\ batches' = [batches EXCEPT ![d] = FlushingPatch(@)]
            /\ flights' = flights (+) StartedFlights(d)
       ELSE /\ sched' = started
            /\ UNCHANGED <<batches, flights>>
    /\ UNCHANGED <<config, now, batchItems, flushHistory,
                   nextBatchDoc, nextChunk, calls, assigned, fails>>

\* ------------------------------------------------------------- executeFlush
\* the upper bound of createdAt that a cutoff selects (lt createdAt, cutoff + 1)
CutoffBoundStrict(cutoff) == cutoff
CutoffBound(cutoff) == cutoff + 1

\* query collectBatchItems(batchDocId)
CollectBatchItems(d) ==
    IF d \notin DOMAIN batches
    THEN [items |-> << >>, flushStartedAt |-> NoTime]
    ELSE LET flushStartedAt == IF batches[d].flushStartedAt # NoTime
                               THEN batches[d].flushStartedAt ELSE now
         IN [items |-> Flatten(ChunksBefore(d, CutoffBound(flushStartedAt))),
             flushStartedAt |-> flushStartedAt]

Replace(f, g) == (flights (-) SetToBag({f})) (+) SetToBag({g})

\* executeFlush up to its last transaction: it collects the items and, unless
\* there are none, runs the callback ctx.runAction(processBatchHandle, {items}),
\* which returns (ok) or raises.  The callback does not touch the store.
ExecuteFlush(f, ok) ==
    LET r == CollectBatchItems(f.batchDocId)
        called == Len(r.items) > 0
    IN
    /\ BagIn(f, flights)
    /\ f.pc = "start"
    /\ ~called => ok
    /\ ~ok => Events < MaxEvents
    /\ fails' = IF ok THEN fails ELSE fails + 1
    /\ calls' = [i \in DOMAIN calls |->
                   IF i \in Range(r.items) THEN Append(calls[i], ok) ELSE calls[i]]
    /\ flights' = Replace(f, [f EXCEPT !.items = r.items,
                                       !.flushStartedAt = r.flushStartedAt,
                                       !.success = ok,
                                       !.pc = "record"])
    /\ UNCHANGED <<config, now, batches, batchItems, flushHistory, sched,
                   nextBatchDoc, nextChunk, assigned>>

\* ------------------------------------------------------------- recordFlushResult
\* the completed generations recordFlushResult prunes once document d is
\* completed: all but the first of the completed batches of the base id
\* sorted by descending sequence (the sort is stable over creation order)
PrunedBatchesNone(d) == {}
PrunedBatches(d) ==
    LET completed == ByBaseStatus(batches[d].baseBatchId, "completed") \cup {d}
        kept == CHOOSE k \in completed : \A o \in completed :
                   \/ batches[k].sequence > batches[o].sequence
                   \/ batches[k].sequence = batches[o].sequence /\ k <= o
    IN completed \ {kept}

\* the status a batch reverts to when processBatch raised
RevertedStatusKept == "flushing"
RevertedStatus == "accumulating"

\* the flushHistory document recordFlushResult inserts for batch b
HistoryEntrySucceeded(b, f) ==
    [batchId |-> b.baseBatchId, itemCount |-> Len(f.items), success |-> TRUE]
HistoryEntry(b, f) ==
    [batchId |-> b.baseBatchId, itemCount |-> Len(f.items), success |-> f.success]

\* mutation recordFlushResult(batchDocId, itemCount, durationMs, success,
\* errorMessage, flushStartedAt): the last transaction of executeFlush
RecordFlushResult(f) ==
    LET d == f.batchDocId
        b == batches[d]
        entry == HistoryEntry(b, f)
        cutoffTime == IF f.flushStartedAt # NoTime THEN f.flushStartedAt
                      ELSE IF b.flushStartedAt # NoTime THEN b.flushStartedAt
                      ELSE now
        toDelete == ChunksBefore(d, CutoffBound(cutoffTime))
        remaining == ChunksOf(d) \ toDelete
        remainingCount == CountOf(remaining)
        threshold == Threshold(b.config)
        h == FreshHandle
    IN
    /\ BagIn(f, flights)
    /\ f.pc = "record"
    /\ flights' = flights (-) SetToBag({f})
    /\ IF d \notin DOMAIN batches
       THEN UNCHANGED <<batches, batchItems, flushHistory, sched>>
       ELSE
       /\ flushHistory' = Append(flushHistory, entry)
       /\ IF f.success
          THEN IF remainingCount > 0
               THEN \* stranded items: keep accumulating
                    /\ batchItems' = WithoutDocs(batchItems, toDelete)
                    /\ IF threshold # None /\ remainingCount >= threshold
                       THEN /\ sched' = sched \cup {Scheduled(h, 0, d, FALSE)}
                            /\ batches' = [batches EXCEPT ![d].status = "accumulating",
                                                          ![d].flushStartedAt = NoTime]
                       ELSE IF b.config.flushIntervalMs > 0
                       THEN /\ sched' = sched \cup
                                   {Scheduled(h, b.config.flushIntervalMs, d, TRUE)}
                            /\ batches' = [batches EXCEPT ![d].status = "accumulating",
                                                          ![d].flushStartedAt = NoTime,
                                                          ![d].scheduledFlushId = h]
                       ELSE /\ sched' = sched
                            /\ batches' = [batches EXCEPT ![d].status = "accumulating",
                                                          ![d].flushStartedAt = NoTime]
               ELSE \* no stranded items: completed, prune older completed ones
                    LET pruned == PrunedBatches(d)
                        done == [batches EXCEPT ![d].status = "completed",
                                                ![d].flushStartedAt = NoTime]
                    IN /\ batches' = WithoutDocs(done, pruned)
                       /\ batchItems' = WithoutDocs(batchItems,
                              toDelete \cup UNION { ChunksOf(o) : o \in pruned })
                       /\ sched' = sched
          ELSE \* failure: revert and re-arm the interval timer
               /\ batchItems' = batchItems
               /\ IF b.config.flushIntervalMs > 0
                  THEN /\ sched' = sched \cup
                              {Scheduled(h, b.config.flushIntervalMs, d, TRUE)}
                       /\ batches' = [batches EXCEPT ![d].status = RevertedStatus,
                                                     ![d].flushStartedAt = NoTime,
                                                     ![d].scheduledFlushId = h]
                  ELSE /\ sched' = sched
                       /\ batches' = [batches EXCEPT ![d].status = RevertedStatus,
                                                     ![d].flushStartedAt = NoTime,
                                                     ![d].scheduledFlushId = None]
    /\ UNCHANGED <<config, now, nextBatchDoc, nextChunk, calls, assigned, fails>>

\* ------------------------------------------------------------- table iterator
\* The table iterator (startIteratorJob .. incrementRetryCount).  No function
\* of the iterator reads the clock (createdAt and lastRunAt are only written),
\* so a pending processNextBatch may run at any moment and its delay is kept
\* as data.

MaxIterEvents == 5   \* events of the environment: effective calls of the
                     \* client, pages served that are not the last one,
                     \* callback invocations that raise

DefaultMaxRetries == 5               \* job.config.maxRetries ?? 5
DefaultDelayBetweenBatchesMs == 100  \* config.delayBetweenBatchesMs ?? 100
BackoffBaseMs == 1000                \* Math.min(1000 * Math.pow(2, n), 30000)
BackoffCapMs == 30000

JobIds == {"j"}

\* the numbers of items a page of the data source holds
PageSizes == {0, 1}

\* The configurations startIteratorJob is called with.
IterConfigs ==
    { [maxRetries |-> None, delayBetweenBatchesMs |-> None, onCompleteHandle |-> TRUE],
      [maxRetries |-> 2, delayBetweenBatchesMs |-> None, onCompleteHandle |-> TRUE],
      [maxRetries |-> 2, delayBetweenBatchesMs |-> None, onCompleteHandle |-> FALSE] }

NoError == 0             \* errorMessage: undefined
CancelledByUser == -1    \* errorMessage: "Cancelled by user"

VARIABLES
    jobs,          \* table iteratorJobs: document id -> document
    iterSched,     \* pending scheduled processNextBatch calls (a bag)
    steps,         \* processNextBatch invocations in progress (a bag)
    nextJobDoc,    \* number of job documents inserted so far
    jobCalls,      \* effective calls of the client so far
    pages,         \* pages served so far that were not the last one
    stepFails,     \* callback invocations that raised so far; the k-th one
                   \* raises the error message k
    procCalls,     \* processBatch invocations so far
    completions,   \* the onComplete invocations, in order: their arguments
                   \* and the job document of the invoking step
    streak         \* job document -> attempts on its current page that raised
                   \* since the page before it succeeded

iterVars == <<jobs, iterSched, steps, nextJobDoc, jobCalls, pages, stepFails,
              procCalls, completions, streak>>

\* the events of the environment so far
IterEvents == jobCalls + pages + stepFails

\* no iterator job was ever started
IterInit ==
    /\ jobs = << >>
    /\ iterSched = EmptyBag
    /\ steps = EmptyBag
    /\ nextJobDoc = 0
    /\ jobCalls = 0
    /\ pages = 0
    /\ stepFails = 0
    /\ procCalls = 0
    /\ completions = << >>
    /\ streak = << >>

\* ------------------------------------------------------------- specifications
Next ==
    \/ Tick
    \/ \E b \in BatchIdArgs, n \in CallSizes : AddItems(b, n)
    \/ \E b \in BatchIdArgs : FlushBatch(b)
    \/ \E b \in BatchIdArgs : DeleteBatch(b)
    \/ \E s \in sched : MaybeFlush(s)
    \/ \E f \in BagToSet(flights), ok \in BOOLEAN : ExecuteFlush(f, ok)
    \/ \E f \in BagToSet(flights) : RecordFlushResult(f)

\* every variable of the component
allVars == <<vars, iterVars>>

\* nothing was added and no iterator job was ever started
BatchInit == Init /\ IterInit

\* the steps of the batch accumulator; they leave the iterator alone
BatchNext ==
    \/ Tick /\ UNCHANGED iterVars
    \/ \E b \in BatchIdArgs, n \in CallSizes : AddItems(b, n) /\ UNCHANGED iterVars
    \/ \E b \in BatchIdArgs : FlushBatch(b) /\ UNCHANGED iterVars
    \/ \E b \in BatchIdArgs : DeleteBatch(b) /\ UNCHANGED iterVars
    \/ \E s \in sched : MaybeFlush(s) /\ UNCHANGED iterVars
    \/ \E f \in BagToSet(flights), ok \in BOOLEAN :
          ExecuteFlush(f, ok) /\ UNCHANGED iterVars
    \/ \E f \in BagToSet(flights) : RecordFlushResult(f) /\ UNCHANGED iterVars

\* the batch accumulator; no iterator job is started
Spec == BatchInit /\ [][BatchNext]_allVars

\* Time advances, the scheduler eventually runs every pending function that is
\* due, and an executeFlush in progress eventually takes its next step.
\* Callers are under no obligation.
Fairness ==
    /\ WF_vars(Tick)
    /\ WF_vars(\E s \in sched : MaybeFlush(s))
    /\ WF_vars(\E f \in BagToSet(flights), ok \in BOOLEAN : ExecuteFlush(f, ok))
    /\ WF_vars(\E f \in BagToSet(flights) : RecordFlushResult(f))

LiveSpec == Spec /\ Fairness

\* ------------------------------------------------------------- iterator: public API
\* withIndex("by_jobId", eq jobId).first()
JobByJobIdRunning(jobId) ==
    LET S == { d \in DOMAIN jobs : jobs[d].jobId = jobId /\ jobs[d].status = "running" }
    IN IF S = {} THEN None ELSE Min(S)
JobByJobId(jobId) ==
    LET S == { d \in DOMAIN jobs : jobs[d].jobId = jobId }
    IN IF S = {} THEN None ELSE Min(S)

\* ctx.scheduler.runAfter(delay, internal.lib.processNextBatch, {jobDocId})
ScheduledStep(delay, d) == [delay |-> delay, jobDocId |-> d]

\* the job document startIteratorJob inserts
NewJob(jobId, cfg) ==
    [jobId |-> jobId,
     cursor |-> None,
     processedCount |-> 0,
     status |-> "running",
     config |-> [cfg EXCEPT !.delayBetweenBatchesMs =
                    IF @ = None THEN DefaultDelayBetweenBatchesMs ELSE @],
     retryCount |-> 0,
     errorMessage |-> NoError]

\* mutation startIteratorJob(jobId, config); it throws when the job exists
StartIteratorJob(jobId, cfg) ==
    IF JobByJobId(jobId) # None
    THEN UNCHANGED allVars
    ELSE /\ IterEvents < MaxIterEvents
         /\ jobCalls' = jobCalls + 1
         /\ nextJobDoc' = nextJobDoc + 1
         /\ jobs' = [d \in DOMAIN jobs \cup {nextJobDoc + 1} |->
                       IF d = nextJobDoc + 1 THEN NewJob(jobId, cfg) ELSE jobs[d]]
         /\ iterSched' = iterSched (+) SetToBag({ScheduledStep(0, nextJobDoc + 1)})
         /\ streak' = [d \in DOMAIN streak \cup {nextJobDoc + 1} |->
                         IF d = nextJobDoc + 1 THEN 0 ELSE streak[d]]
         /\ UNCHANGED <<vars, steps, pages, stepFails, procCalls, completions>>

\* mutation pauseIteratorJob(jobId); it throws unless the job is running
PauseIteratorJob(jobId) ==
    LET d == JobByJobId(jobId)
    IN IF d = None \/ jobs[d].status # "running"
       THEN UNCHANGED allVars
       ELSE /\ IterEvents < MaxIterEvents
            /\ jobCalls' = jobCalls + 1
            /\ jobs' = [jobs EXCEPT ![d].status = "paused"]
            /\ UNCHANGED <<vars, iterSched, steps, nextJobDoc, pages, stepFails,
                           procCalls, completions, streak>>

\* ctx.db.patch(job._id, {status: "running", retryCount: 0})
ResumedKeepingRetries(job) == [job EXCEPT !.status = "running"]
Resumed(job) == [job EXCEPT !.status = "running", !.retryCount = 0]

\* mutation resumeIteratorJob(jobId); it throws unless the job is paused
ResumeIteratorJob(jobId) ==
    LET d == JobByJobId(jobId)
    IN IF d = None \/ jobs[d].status # "paused"
       THEN UNCHANGED allVars
       ELSE /\ IterEvents < MaxIterEvents
            /\ jobCalls' = jobCalls + 1
            /\ jobs' = [jobs EXCEPT ![d] = Resumed(@)]
            /\ iterSched' = iterSched (+) SetToBag({ScheduledStep(0, d)})
            /\ UNCHANGED <<vars, steps, nextJobDoc, pages, stepFails, procCalls,
                           completions, streak>>

\* job.status === "completed" || job.status === "failed"
CancelRefusedCompletedOnly(status) == status = "completed"
CancelRefused(status) == status \in {"completed", "failed"}

\* what cancelIteratorJob(jobId) returns
CancelIteratorJobResult(jobId) ==
    LET d == JobByJobId(jobId)
    IN IF d = None
       THEN [status |-> "throw: not found", reason |-> "none"]
       ELSE IF CancelRefused(jobs[d].status)
       THEN [status |-> jobs[d].status, reason |-> "Job already finished"]
       ELSE [status |-> "failed", reason |-> "none"]

\* mutation cancelIteratorJob(jobId); it throws when the job is unknown and
\* changes nothing when the job is finished
CancelIteratorJob(jobId) ==
    LET d == JobByJobId(jobId)
    IN IF d = None \/ CancelRefused(jobs[d].status)
       THEN UNCHANGED allVars
       ELSE /\ IterEvents < MaxIterEvents
            /\ jobCalls' = jobCalls + 1
            /\ jobs' = [jobs EXCEPT ![d].status = "failed",
                                    ![d].errorMessage = CancelledByUser]
            /\ UNCHANGED <<vars, iterSched, steps, nextJobDoc, pages, stepFails,
                           procCalls, completions, streak>>

\* job.status === "running" || job.status === "paused"
DeleteJobRefusedRunningOnly(status) == status = "running"
DeleteJobRefused(status) == status \in {"running", "paused"}

\* what deleteIteratorJob(jobId) returns
DeleteIteratorJobResult(jobId) ==
    LET d == JobByJobId(jobId)
    IN IF d = None
       THEN [deleted |-> FALSE, reason |-> "Job not found"]
       ELSE IF DeleteJobRefused(jobs[d].status)
       THEN [deleted |-> FALSE, reason |-> "Cannot delete active job"]
       ELSE [deleted |-> TRUE, reason |-> "none"]

\* mutation deleteIteratorJob(jobId)
DeleteIteratorJob(jobId) ==
    LET d == JobByJobId(jobId)
    IN IF d = None \/ DeleteJobRefused(jobs[d].status)
       THEN UNCHANGED allVars
       ELSE /\ IterEvents < MaxIterEvents
            /\ jobCalls' = jobCalls + 1
            /\ jobs' = [x \in DOMAIN jobs \ {d} |-> jobs[x]]
            /\ streak' = [x \in DOMAIN streak \ {d} |-> streak[x]]
            /\ UNCHANGED <<vars, iterSched, steps, nextJobDoc, pages, stepFails,
                           procCalls, completions>>

\* ------------------------------------------------------------- iterator: processNextBatch
\* Math.min(1000 * Math.pow(2, newRetryCount), 30000)
BackoffMs(newRetryCount) == Min({BackoffBaseMs * 2^newRetryCount, BackoffCapMs})

\* job.config.maxRetries ?? 5
MaxRetriesOf(job) ==
    IF job.config.maxRetries = None THEN DefaultMaxRetries ELSE job.config.maxRetries

\* what the callbacks of one step do: getNextBatch raises; or it returns a
\* page of n items with its done flag and processBatch, invoked when n > 0,
\* returns or raises
Outcomes ==
    { [get |-> FALSE, n |-> 0, done |-> FALSE, process |-> TRUE] } \cup
    { [get |-> TRUE, n |-> n, done |-> done, process |-> ok] :
        n \in PageSizes, done \in BOOLEAN, ok \in BOOLEAN }

\* if (items.length > 0) await ctx.runAction(processBatchHandle, {items})
CallsProcessBatchAlways(out) == out.get
CallsProcessBatch(out) == out.get /\ out.n > 0

\* a processNextBatch invocation in progress: the job as it read it, the page
\* it got, the error it caught (NoError: none) and what it does next
Step(d, job, out, error, pc) ==
    [jobDocId |-> d, job |-> job, n |-> out.n, done |-> out.done,
     error |-> error, pc |-> pc]

\* if (!job || job.status !== "running") return {processed: false, ...}
StopsOnlyWhenMissing(d) == d \notin DOMAIN jobs
StopsSilently(d) == d \notin DOMAIN jobs \/ jobs[d].status # "running"

\* action processNextBatch(jobDocId), started by the scheduler, up to its
\* first write: it reads the job, stops unless the job is running, and runs
\* getNextBatch and processBatch.  The callbacks do not touch the job.
ProcessNextBatch(e, out) ==
    LET d == e.jobDocId
        raises == ~out.get \/ ~out.process
    IN
    /\ BagIn(e, iterSched)
    /\ iterSched' = iterSched (-) SetToBag({e})
    /\ IF StopsSilently(d)
       THEN /\ out = [get |-> FALSE, n |-> 0, done |-> FALSE, process |-> TRUE]
            /\ UNCHANGED <<steps, pages, stepFails, procCalls, streak>>
       ELSE /\ (out.get /\ out.n = 0) => out.process
            /\ (raises \/ ~out.done) => IterEvents < MaxIterEvents
            /\ stepFails' = IF raises THEN stepFails + 1 ELSE stepFails
            /\ pages' = IF ~raises /\ ~out.done THEN pages + 1 ELSE pages
            /\ streak' = IF raises THEN [streak EXCEPT ![d] = @ + 1] ELSE streak
            /\ procCalls' = IF CallsProcessBatch(out) THEN procCalls + 1 ELSE procCalls
            /\ steps' = steps (+) SetToBag({
                   IF raises
                   THEN Step(d, jobs[d], out, stepFails + 1, "catch")
                   ELSE Step(d, jobs[d], out, NoError, "commit") })
    /\ UNCHANGED <<vars, jobs, nextJobDoc, jobCalls, completions>>

\* mutation markJobCompleted(jobDocId, processedCount)
MarkJobCompleted(job, processedCount) ==
    [job EXCEPT !.status = "completed", !.processedCount = processedCount]

\* mutation updateJobProgress(jobDocId, cursor, processedCount)
UpdateJobProgress(job, cursor, processedCount) ==
    [job EXCEPT !.cursor = cursor, !.processedCount = processedCount,
                !.retryCount = 0]

\* mutation markJobFailed(jobDocId, errorMessage, retryCount)
MarkJobFailed(job, errorMessage, retryCount) ==
    [job EXCEPT !.status = "failed", !.errorMessage = errorMessage,
                !.retryCount = retryCount]

\* mutation incrementRetryCount(jobDocId, retryCount, errorMessage)
IncrementRetryCount(job, retryCount, errorMessage) ==
    [job EXCEPT !.retryCount = retryCount, !.errorMessage = errorMessage]

\* job.processedCount + items.length
NewProcessedCount(st) == st.job.processedCount + st.n

\* the cursor getNextBatch returns for the page after st.job.cursor
NextCursor(st) == st.job.cursor + 1

Advance(st, next) == (steps (-) SetToBag({st})) (+) SetToBag({next})

\* processNextBatch after the callbacks returned: markJobCompleted when the
\* page was the last one, else updateJobProgress.
\* A patch of a deleted document raises, and so does the patch of the catch
\* block after it: the invocation ends.
StepCommit(st) ==
    LET d == st.jobDocId
    IN
    /\ BagIn(st, steps)
    /\ st.pc = "commit"
    /\ IF d \notin DOMAIN jobs
       THEN /\ steps' = steps (-) SetToBag({st})
            /\ UNCHANGED <<jobs, iterSched, streak>>
       ELSE IF st.done
       THEN /\ jobs' = [jobs EXCEPT ![d] = MarkJobCompleted(@, NewProcessedCount(st))]
            /\ steps' = IF st.job.config.onCompleteHandle
                        THEN Advance(st, [st EXCEPT !.pc = "onComplete"])
                        ELSE steps (-) SetToBag({st})
            /\ streak' = [streak EXCEPT ![d] = 0]
            /\ UNCHANGED iterSched
       ELSE /\ jobs' = [jobs EXCEPT ![d] =
                          UpdateJobProgress(@, NextCursor(st), NewProcessedCount(st))]
            /\ steps' = Advance(st, [st EXCEPT !.pc = "next"])
            /\ streak' = [streak EXCEPT ![d] = 0]
            /\ UNCHANGED iterSched
    /\ UNCHANGED <<vars, nextJobDoc, jobCalls, pages, stepFails, procCalls,
                   completions>>

\* processNextBatch: ctx.runMutation(onCompleteHandle, {jobId, processedCount})
\* returns (ok) or raises into the catch block
OnComplete(st, ok) ==
    /\ BagIn(st, steps)
    /\ st.pc = "onComplete"
    /\ ~ok => IterEvents < MaxIterEvents
    /\ stepFails' = IF ok THEN stepFails ELSE stepFails + 1
    /\ completions' = Append(completions,
           [jobDocId |-> st.jobDocId, jobId |-> st.job.jobId,
            processedCount |-> NewProcessedCount(st)])
    /\ steps' = IF ok THEN steps (-) SetToBag({st})
                ELSE Advance(st, [st EXCEPT !.pc = "catch", !.error = stepFails + 1])
    /\ streak' = IF ~ok /\ st.jobDocId \in DOMAIN jobs
                  THEN [streak EXCEPT ![st.jobDocId] = @ + 1]
                  ELSE streak
    /\ UNCHANGED <<vars, jobs, iterSched, nextJobDoc, jobCalls, pages, procCalls>>

\* const newRetryCount = job.retryCount + 1
NewRetryCount(st) == st.job.retryCount + 1

\* newRetryCount >= maxRetries
RetriesExhausted(st) == NewRetryCount(st) >= MaxRetriesOf(st.job)

\* processNextBatch, the catch block: markJobFailed when the retries are
\* used up, else incrementRetryCount
StepCatch(st) ==
    LET d == st.jobDocId
    IN
    /\ BagIn(st, steps)
    /\ st.pc = "catch"
    /\ IF d \notin DOMAIN jobs
       THEN /\ steps' = steps (-) SetToBag({st})
            /\ UNCHANGED jobs
       ELSE IF RetriesExhausted(st)
       THEN /\ jobs' = [jobs EXCEPT ![d] =
                          MarkJobFailed(@, st.error, NewRetryCount(st))]
            /\ steps' = steps (-) SetToBag({st})
       ELSE /\ jobs' = [jobs EXCEPT ![d] =
                          IncrementRetryCount(@, NewRetryCount(st), st.error)]
            /\ steps' = Advance(st, [st EXCEPT !.pc = "retry"])
    /\ UNCHANGED <<vars, iterSched, nextJobDoc, jobCalls, pages, stepFails,
                   procCalls, completions, streak>>

\* the delay of the step processNextBatch schedules: the configured delay
\* after a page, the backoff after a failure
StepDelay(st) ==
    IF st.pc = "next" THEN st.job.config.delayBetweenBatchesMs
    ELSE BackoffMs(NewRetryCount(st))

\* processNextBatch: ctx.scheduler.runAfter(.., processNextBatch, {jobDocId}),
\* its last step after updateJobProgress and after incrementRetryCount
StepSchedule(st) ==
    /\ BagIn(st, steps)
    /\ st.pc \in {"next", "retry"}
    /\ steps' = steps (-) SetToBag({st})
    /\ iterSched' = iterSched (+) SetToBag({ScheduledStep(StepDelay(st), st.jobDocId)})
    /\ UNCHANGED <<vars, jobs, nextJobDoc, jobCalls, pages, stepFails, procCalls,
                   completions, streak>>

IterNext ==
    \/ \E j \in JobIds, cfg \in IterConfigs : StartIteratorJob(j, cfg)
    \/ \E j \in JobIds : PauseIteratorJob(j)
    \/ \E j \in JobIds : ResumeIteratorJob(j)
    \/ \E j \in JobIds : CancelIteratorJob(j)
    \/ \E j \in JobIds : DeleteIteratorJob(j)
    \/ \E e \in BagToSet(iterSched), out \in Outcomes : ProcessNextBatch(e, out)
    \/ \E st \in BagToSet(steps) : StepCommit(st)
    \/ \E st \in BagToSet(steps), ok \in BOOLEAN : OnComplete(st, ok)
    \/ \E st \in BagToSet(steps) : StepCatch(st)
    \/ \E st \in BagToSet(steps) : StepSchedule(st)

\* no iterator job was ever started; the accumulator holds nothing and is
\* left alone
IterStart == Init /\ config.flushIntervalMs = 0 /\ IterInit

\* the table iterator
IterSpec == IterStart /\ [][IterNext]_allVars

\* The scheduler eventually runs every pending processNextBatch and an
\* invocation in progress eventually takes its next step.
IterFairness ==
    /\ WF_allVars(\E e \in BagToSet(iterSched), out \in Outcomes :
                                ProcessNextBatch(e, out))
    /\ WF_allVars(\E st \in BagToSet(steps) : StepCommit(st))
    /\ WF_allVars(\E st \in BagToSet(steps), ok \in BOOLEAN :
                                OnComplete(st, ok))
    /\ WF_allVars(\E st \in BagToSet(steps) : StepCatch(st))
    /\ WF_allVars(\E st \in BagToSet(steps) : StepSchedule(st))

IterLiveSpec == IterSpec /\ IterFairness


\* ------------------------------------------------------------- properties
\* the items held by the stored batchItems documents
StoredItems == UNION { Range(batchItems[c].items) : c \in DOMAIN batchItems }

\* item i was given to a processBatch invocation that returned
DeliveredOk(i) == \E k \in 1..Len(calls[i]) : calls[i][k]

FlightsOf(d) == { f \in BagToSet(flights) : f.batchDocId = d }
NumFlightsOf(d) == SumOver([f \in BagToSet(flights) |-> CopiesIn(f, flights)], FlightsOf(d))

\* the step is an addItems call; the chunk it inserted and that chunk's batch
IsAddItems == nextChunk' = nextChunk + 1
AddedChunk == batchItems'[nextChunk']
AddedDoc == AddedChunk.batchDocId

\* the step is the scheduler running the pending function s
Runs(s) == s \notin sched' /\ MaybeFlush(s)

\* the step is executeFlush f collecting and calling processBatch
Calls(f, ok) == f.pc = "start" /\ flights' # flights /\ ExecuteFlush(f, ok)

\* the step is executeFlush f recording its result
Records(f) == f.pc = "record" /\ flights' # flights /\ RecordFlushResult(f)

\* an unforced zero-delay attempt for document d that this step scheduled
SizeAttemptScheduled(d) ==
    \E s \in sched' \ sched : s.batchDocId = d /\ s.delay = 0 /\ ~s.force

\* the step schedules exactly one function: a forced attempt on document d
\* after delay, whose handle d stores
TimerArmed(d, delay) ==
    \E s \in sched' \ sched :
        /\ { t \in sched' \ sched : t.force } = {s}
        /\ s = Scheduled(s.id, delay, d, TRUE)
        /\ batches'[d].scheduledFlushId = s.id

\* C1: for every baseId at most one batch has status accumulating, in every
\* reachable state.
C1_AtMostOneAccumulating ==
    \A base \in BaseIds : Cardinality(ByBaseStatus(base, "accumulating")) <= 1

\* C2: no item is dropped.  An item leaves the store only after a processBatch
\* invocation holding it returned; an item is given to processBatch again only
\* after every earlier invocation holding it raised; and once nothing is stored
\* and no flush is in progress every added item was delivered exactly once by
\* a processBatch invocation that returned.
C2_NoItemDropped ==
    /\ \A i \in 1..Len(calls) :
          /\ i \notin StoredItems => DeliveredOk(i)
          /\ \A k \in 1..(Len(calls[i]) - 1) : ~calls[i][k]
    /\ (StoredItems = {} /\ flights = EmptyBag) =>
          \A i \in 1..Len(calls) :
             Cardinality({ k \in 1..Len(calls[i]) : calls[i][k] }) = 1

\* C2 witness: everything is drained and an item was retried after a failure
C2_Witness ==
    /\ Len(calls) > 0
    /\ StoredItems = {}
    /\ flights = EmptyBag
    /\ \E i \in 1..Len(calls) : calls[i] = <<FALSE, TRUE>>

\* C3: with flushIntervalMs > 0 every added item is eventually given to
\* processBatch, whatever the callers do afterwards (in particular when they
\* do nothing more), under weak fairness of the scheduled steps.
C3_EveryItemEventuallyProcessed ==
    \A i \in 1..(MaxEvents * Max(CallSizes)) :
        (config.flushIntervalMs > 0 /\ Len(calls) >= i)
            ~> (Len(calls) >= i /\ Len(calls[i]) > 0)

\* C4: the sequence numbers given to the batches created for a baseId are
\* 0, 1, 2, ... in this order, so no batchId is given twice.
C4_SequenceGapFree ==
    \A base \in BaseIds :
        \A k \in 1..Len(assigned[base]) : assigned[base][k] = k - 1

\* C5: every step that sets a batch's status to completed starts from a state
\* in which that batch is flushing.
C5_CompletedOnlyFromFlushing ==
    [][\A d \in DOMAIN batches :
          (d \in DOMAIN batches' /\ batches'[d].status = "completed"
             /\ batches[d].status # "completed")
          => batches[d].status = "flushing"]_vars

\* C5 witness: a flush has completed a batch
C5_Witness ==
    /\ flushHistory # << >>
    /\ flushHistory[Len(flushHistory)].success
    /\ \E d \in DOMAIN batches : batches[d].status = "completed"

\* C6: a flush attempt that finds its batch missing or not accumulating
\* returns flushed:false / not_accumulating, changes nothing and starts no
\* executeFlush; once an attempt has flushed, every other pending attempt on
\* that batch would lose; at most one executeFlush is in progress per batch
\* and only while the batch is flushing; processBatch is invoked at most once
\* per flushing episode.
C6_SingleWinner ==
    /\ [](\A f \in BagToSet(flights) :
            /\ NumFlightsOf(f.batchDocId) = 1
            /\ f.batchDocId \in DOMAIN batches
            /\ batches[f.batchDocId].status = "flushing")
    /\ [][/\ \A s \in sched :
               (Runs(s) /\ (s.batchDocId \notin DOMAIN batches
                            \/ batches[s.batchDocId].status # "accumulating"))
               => /\ DoFlushTransitionResult(s.batchDocId, s.force)
                        = [flushed |-> FALSE, reason |-> "not_accumulating",
                           itemCount |-> 0]
                  /\ sched' = sched \ {s}
                  /\ UNCHANGED <<batches, batchItems, flushHistory, flights, calls>>
          /\ \A s \in sched :
               (Runs(s) /\ DoFlushTransitionResult(s.batchDocId, s.force).flushed)
               => \A t \in sched' :
                     t.batchDocId = s.batchDocId =>
                        (DoFlushTransitionResult(t.batchDocId, t.force))'
                           = [flushed |-> FALSE, reason |-> "not_accumulating",
                              itemCount |-> 0]
          /\ \A f \in BagToSet(flights) : \A ok \in BOOLEAN :
               Calls(f, ok)
               => /\ batches[f.batchDocId].status = "flushing"
                  /\ \A g \in (FlightsOf(f.batchDocId))' : g.pc = "record"]_vars

\* C6 witness: one attempt has won the race on a batch, its executeFlush is
\* in progress, and another attempt on the same batch is about to run
C6_Witness ==
    \E s \in sched :
        /\ now >= s.runAt
        /\ s.batchDocId \in DOMAIN batches
        /\ batches[s.batchDocId].status = "flushing"
        /\ NumFlightsOf(s.batchDocId) = 1

C8_TimeTrigger ==
    [][/\ (IsAddItems /\ nextBatchDoc' # nextBatchDoc /\ config.flushIntervalMs > 0)
            => TimerArmed(nextBatchDoc', config.flushIntervalMs)
       /\ \A s \in sched :
            (s.force /\ Runs(s) /\ s.batchDocId \in DOMAIN batches
               /\ batches[s.batchDocId].status = "accumulating"
               /\ TotalCount(s.batchDocId) > 0)
            => /\ batches'[s.batchDocId].status = "flushing"
               /\ (NumFlightsOf(s.batchDocId))' = 1
       /\ \A d \in DOMAIN batches :
            (batches[d].status = "flushing" /\ d \in DOMAIN batches'
               /\ batches'[d].status = "flushing")
            => (ChunksOf(d))' = ChunksOf(d)
       /\ \A f \in BagToSet(flights) : \A ok \in BOOLEAN :
            Calls(f, ok)
            => /\ \A g \in (FlightsOf(f.batchDocId))' :
                     g.items = Flatten(ChunksOf(f.batchDocId))
               /\ \A i \in Range(Flatten(ChunksOf(f.batchDocId))) :
                     calls'[i] = Append(calls[i], ok)]_vars

\* C8 witness: after a single addItems("e", [a]) below the threshold of 2 the
\* interval timer fired and processBatch was invoked with exactly [a]
C8_Witness ==
    /\ config.flushIntervalMs > 0
    /\ Threshold(config) = 2
    /\ nextChunk = 1
    /\ Len(calls) = 1
    /\ Len(calls[1]) = 1
    /\ \E f \in BagToSet(flights) : f.pc = "record" /\ f.items = <<1>>

Deletes(batchId) ==
    /\ batches' # batches
    /\ flights' = flights
    /\ ByBatchId(batchId) # {}
    /\ DeleteBatch(batchId)

\* C11: deleteBatch on a batch that is flushing, or accumulating with at
\* least one item, returns deleted:false and changes nothing (no call deletes
\* such a batch); on any other existing batch it returns deleted:true, removes
\* the batch and all of its chunks, cancels the function whose handle the
\* batch stores, leaves no interval timer of the batch pending and touches
\* nothing else.
C11_DeleteBatch ==
    /\ [](\A b \in BatchIdArgs : \A d \in ByBatchId(b) :
            d = Min(ByBatchId(b)) =>
               (DeleteBatchResult(b).deleted
                  <=> ~(\/ batches[d].status = "flushing"
                        \/ batches[d].status = "accumulating" /\ TotalCount(d) > 0)))
    /\ [][\A d \in DOMAIN batches \ DOMAIN batches' :
            flights' = flights =>
               /\ batches[d].status # "flushing"
               /\ batches[d].status = "accumulating" => TotalCount(d) = 0
               /\ \E b \in BatchIdArgs : Deletes(b) /\ d = Min(ByBatchId(b))]_vars
    /\ [][\A b \in BatchIdArgs :
            Deletes(b) =>
               \A d \in {Min(ByBatchId(b))} :
                  /\ DeleteBatchResult(b).deleted
                  /\ batches' = WithoutDocs(batches, {d})
                  /\ batchItems' = WithoutDocs(batchItems, ChunksOf(d))
                  /\ sched' = { s \in sched : s.id # batches[d].scheduledFlushId }
                  /\ \A s \in sched' : s.batchDocId = d => s.delay = 0
                  /\ UNCHANGED <<flushHistory, flights, calls, now>>]_vars

\* C11 witness: the empty batch e::0 was deleted before its interval timer
\* was due and the timer is gone; the next batch holds an item, so that
\* deleteBatch refuses it
C11_Witness ==
    /\ config.flushIntervalMs > 0
    /\ now = 0
    /\ nextBatchDoc = 2
    /\ flushHistory = << >>
    /\ DOMAIN batches = {2}
    /\ DOMAIN batchItems = ChunksOf(2)
    /\ TotalCount(2) > 0
    /\ \A s \in sched : s.batchDocId = 2
    /\ ~DeleteBatchResult(<<"e", 0>>).deleted

\* the step is a flushBatch(batchId) call that schedules
Flushes(batchId) ==
    /\ sched' # sched
    /\ nextChunk' = nextChunk
    /\ FlushBatch(batchId)

Terminal(status) == status \in {"completed", "failed"}

\* C12: once a job's status is completed or failed no step changes its status
\* again, whatever loop step is in progress.
C12_TerminalStatusKept ==
    [][\A d \in DOMAIN jobs :
          (Terminal(jobs[d].status) /\ d \in DOMAIN jobs')
          => jobs'[d].status = jobs[d].status]_allVars

\* the step of an invocation that writes the outcome of a page whose
\* callbacks returned into the job d
Commits(st, d) ==
    /\ st.pc = "commit"
    /\ st.jobDocId = d
    /\ d \in DOMAIN jobs
    /\ steps' # steps
    /\ StepCommit(st)

\* C13: retryCount is 0 right after the job is created, right after every
\* successfully processed page, the final one (done = true) included, and right
\* after resumeIteratorJob.
C13_RetryCountReset ==
    [][\A d \in DOMAIN jobs' :
          (\/ d \notin DOMAIN jobs
           \/ d \in DOMAIN jobs /\ jobs[d].status = "paused"
                 /\ jobs'[d].status = "running"
           \/ \E st \in BagToSet(steps) : Commits(st, d))
          => jobs'[d].retryCount = 0]_allVars

\* the step of an invocation that schedules the retry after a failure
SchedulesRetry(st) ==
    /\ st.pc = "retry"
    /\ steps' # steps
    /\ StepSchedule(st)

\* the pending steps of job d scheduled with this delay
PendingWith(S, d, delay) == CopiesIn(ScheduledStep(delay, d), S)

\* C14: the retry scheduled after the k-th consecutive failure (k = 1, 2, ...)
\* is delayed by min(1000 * 2^(k-1), 30000) ms: 1000, 2000, 4000, ...
C14_BackoffFromOneSecond ==
    [][\A st \in BagToSet(steps) : SchedulesRetry(st) =>
          \A k \in {NewRetryCount(st)}, d \in {st.jobDocId} :
             \A delay \in {Min({BackoffBaseMs * 2^(k - 1), BackoffCapMs})} :
                PendingWith(iterSched', d, delay) = PendingWith(iterSched, d, delay) + 1
      ]_allVars

\* the catch block of an invocation writes into the job d
Catches(st, d) ==
    /\ st.pc = "catch"
    /\ st.jobDocId = d
    /\ d \in DOMAIN jobs
    /\ steps' # steps
    /\ StepCatch(st)

\* C15 as stated: a running job is marked failed by the loop exactly when the
\* consecutive failed attempts on its current page reach maxRetries; after
\* fewer failures it stays running with retryCount equal to their number.
C15_FailedAtConsecutiveFailures ==
    [][\A d \in DOMAIN jobs : \A st \in BagToSet(steps) :
          (jobs[d].status = "running" /\ Catches(st, d)) =>
             IF streak[d] >= MaxRetriesOf(jobs[d])
             THEN jobs'[d].status = "failed"
             ELSE jobs'[d].status = "running" /\ jobs'[d].retryCount = streak[d]
      ]_allVars

\* the onComplete invocations made for the job document d
CompletionsOf(d) == { i \in 1..Len(completions) : completions[i].jobDocId = d }

\* the invocations in progress for the job document d
StepsOf(d) == { st \in BagToSet(steps) : st.jobDocId = d }

\* C16: onComplete is invoked exactly once for a job that completes and never
\* for a job that ends failed or cancelled: at most one invocation per job, an
\* invoked job is completed and was not cancelled, and a completed job with a
\* handle whose steps are all over was invoked.
C16_OnCompleteExactlyOnce ==
    \A d \in DOMAIN jobs :
       /\ Cardinality(CompletionsOf(d)) <= 1
       /\ CompletionsOf(d) # {} =>
             /\ jobs[d].status = "completed"
             /\ jobs[d].errorMessage # CancelledByUser
       /\ (jobs[d].status = "completed" /\ jobs[d].config.onCompleteHandle
             /\ StepsOf(d) = {}) => CompletionsOf(d) # {}

\* the scheduler starts a step of the running job d and the callbacks yield out
Reads(e, out, d) ==
    /\ e.jobDocId = d
    /\ d \in DOMAIN jobs
    /\ jobs[d].status = "running"
    /\ steps' # steps
    /\ ProcessNextBatch(e, out)

\* the invocation st invokes onComplete
Completes(st) ==
    /\ st.pc = "onComplete"
    /\ completions' # completions
    /\ \E ok \in BOOLEAN : OnComplete(st, ok)

\* the last page, holding no item
EmptyLastPage == [get |-> TRUE, n |-> 0, done |-> TRUE, process |-> TRUE]

\* C17: a step whose getNextBatch reports done = true with no item does not
\* invoke processBatch; it sets the job to completed, with the processedCount
\* it read when it started, and then invokes onComplete, when the job has a
\* handle, once, with the job's id and that processedCount.
C17_EmptyLastPage ==
    /\ [][\A e \in BagToSet(iterSched), d \in DOMAIN jobs :
             Reads(e, EmptyLastPage, d) =>
                /\ procCalls' = procCalls
                /\ steps' = steps (+) SetToBag({
                      [jobDocId |-> d, job |-> jobs[d], n |-> 0, done |-> TRUE,
                       error |-> NoError, pc |-> "commit"]})
                /\ UNCHANGED <<jobs, completions>>]_allVars
    /\ [][\A st \in BagToSet(steps), d \in DOMAIN jobs :
             (st.n = 0 /\ st.done /\ Commits(st, d)) =>
                /\ jobs' = [jobs EXCEPT ![d].status = "completed",
                                        ![d].processedCount = st.job.processedCount]
                /\ steps' = IF st.job.config.onCompleteHandle
                            THEN (steps (-) SetToBag({st})) (+)
                                    SetToBag({[st EXCEPT !.pc = "onComplete"]})
                            ELSE steps (-) SetToBag({st})
                /\ UNCHANGED <<procCalls, completions, iterSched>>]_allVars
    /\ [][\A st \in BagToSet(steps) :
             (st.n = 0 /\ st.done /\ Completes(st)) =>
                /\ st.job.config.onCompleteHandle
                /\ completions' = Append(completions,
                      [jobDocId |-> st.jobDocId, jobId |-> st.job.jobId,
                       processedCount |-> st.job.processedCount])
                /\ CopiesIn(st, steps') = CopiesIn(st, steps) - 1
                /\ UNCHANGED <<procCalls, jobs, iterSched>>]_allVars

\* C17 witness: after one page of one item the last page came empty; the job
\* is completed with processedCount 1 and onComplete was invoked with 1 (the
\* invocation raised, so the step that made it is still there to tell)
C17_Witness ==
    \E st \in BagToSet(steps) :
       /\ st.pc = "catch" /\ st.n = 0 /\ st.done
       /\ st.job.processedCount = 1
       /\ procCalls = 1
       /\ st.jobDocId \in DOMAIN jobs
       /\ jobs[st.jobDocId].status = "completed"
       /\ jobs[st.jobDocId].processedCount = 1
       /\ completions = << [jobDocId |-> st.jobDocId, jobId |-> st.job.jobId,
                            processedCount |-> 1] >>

\* the job documents with this jobId
JobsNamed(jobId) == { d \in DOMAIN jobs : jobs[d].jobId = jobId }

\* C19: startIteratorJob on a jobId that exists fails: the job stays as it is
\* and nothing is scheduled.  On a new jobId it inserts exactly one job, with
\* status running, processedCount 0, retryCount 0 and no cursor, and schedules
\* exactly one step for it with delay 0.
C19_StartIteratorJob ==
    [][\A j \in JobIds, cfg \in IterConfigs : StartIteratorJob(j, cfg) =>
          IF JobsNamed(j) # {}
          THEN UNCHANGED allVars
          ELSE \E d \in DOMAIN jobs' \ DOMAIN jobs :
                  /\ DOMAIN jobs' = DOMAIN jobs \cup {d}
                  /\ \A x \in DOMAIN jobs : jobs'[x] = jobs[x]
                  /\ jobs'[d].jobId = j
                  /\ jobs'[d].status = "running"
                  /\ jobs'[d].processedCount = 0
                  /\ jobs'[d].retryCount = 0
                  /\ jobs'[d].cursor = None
                  /\ jobs'[d].errorMessage = NoError
                  /\ iterSched' = iterSched (+) SetToBag({[delay |-> 0, jobDocId |-> d]})
                  /\ UNCHANGED <<steps, completions, procCalls>>]_allVars

\* C19 witness: the job was cancelled and deleted and its jobId started again:
\* the second document is running with nothing processed and its step pending
C19_Witness ==
    /\ nextJobDoc = 2
    /\ DOMAIN jobs = {2}
    /\ jobs[2].status = "running"
    /\ jobs[2].processedCount = 0
    /\ jobs[2].retryCount = 0
    /\ jobs[2].cursor = None
    /\ CopiesIn([delay |-> 0, jobDocId |-> 2], iterSched) = 1
    /\ jobCalls = 4

\* C20: pauseIteratorJob on a running job sets its status to paused and
\* changes nothing else; resumeIteratorJob on a paused job sets status running
\* and retryCount 0 and schedules one step with delay 0.  On an unknown job
\* or a job in another status each fails, changing and scheduling nothing.
C20_PauseResume ==
    [][\A j \in JobIds :
          /\ PauseIteratorJob(j) =>
                IF \E d \in JobsNamed(j) : jobs[d].status = "running"
                THEN \E d \in JobsNamed(j) :
                        /\ jobs' = [jobs EXCEPT ![d].status = "paused"]
                        /\ UNCHANGED <<iterSched, steps, completions, procCalls>>
                ELSE UNCHANGED allVars
          /\ ResumeIteratorJob(j) =>
                IF \E d \in JobsNamed(j) : jobs[d].status = "paused"
                THEN \E d \in JobsNamed(j) :
                        /\ jobs' = [jobs EXCEPT ![d].status = "running",
                                                ![d].retryCount = 0]
                        /\ iterSched' = iterSched (+)
                                           SetToBag({[delay |-> 0, jobDocId |-> d]})
                        /\ UNCHANGED <<steps, completions, procCalls>>
                ELSE UNCHANGED allVars]_allVars

\* C20 witness: a job that had failed once was paused and resumed: it is
\* running with retryCount 0, and the retry and the resumed step are pending
C20_Witness ==
    \E d \in DOMAIN jobs :
       /\ jobs[d].status = "running"
       /\ jobs[d].retryCount = 0
       /\ jobs[d].errorMessage = 1
       /\ jobCalls = 3
       /\ stepFails = 1
       /\ steps = EmptyBag
       /\ iterSched = SetToBag({[delay |-> 0, jobDocId |-> d],
                                [delay |-> 2000, jobDocId |-> d]})

\* C21: cancelIteratorJob on a completed or failed job returns the job's
\* status and changes no field of it; on a running or paused job it sets
\* status failed and errorMessage "Cancelled by user" and leaves cursor,
\* processedCount, retryCount and everything else as they are.
C21_CancelIteratorJob ==
    [][\A j \in JobIds : CancelIteratorJob(j) =>
          IF JobsNamed(j) = {}
          THEN UNCHANGED allVars
          ELSE \E d \in JobsNamed(j) :
                  IF jobs[d].status \in {"completed", "failed"}
                  THEN /\ UNCHANGED allVars
                       /\ CancelIteratorJobResult(j) =
                            [status |-> jobs[d].status, reason |-> "Job already finished"]
                  ELSE /\ jobs[d].status \in {"running", "paused"}
                       /\ CancelIteratorJobResult(j).status = "failed"
                       /\ jobs' = [jobs EXCEPT ![d].status = "failed",
                                               ![d].errorMessage = CancelledByUser]
                       /\ jobs'[d].cursor = jobs[d].cursor
                       /\ jobs'[d].processedCount = jobs[d].processedCount
                       /\ jobs'[d].retryCount = jobs[d].retryCount
                       /\ UNCHANGED <<iterSched, steps, completions, procCalls>>
      ]_allVars

\* C21 witness: a job that had processed one page and then failed once was
\* cancelled: it is failed, "Cancelled by user", with its cursor, count and
\* retryCount kept
C21_Witness ==
    \E d \in DOMAIN jobs :
       /\ jobs[d].status = "failed"
       /\ jobs[d].errorMessage = CancelledByUser
       /\ jobs[d].cursor = 1
       /\ jobs[d].processedCount = 1
       /\ jobs[d].retryCount = 1
       /\ jobCalls = 2
       /\ steps = EmptyBag

\* C22: deleteIteratorJob returns deleted:false and changes nothing for an
\* unknown jobId and for a job that is running or paused; it deletes the job,
\* and nothing else, only when the job is completed or failed.
C22_DeleteIteratorJob ==
    /\ [][\A j \in JobIds : DeleteIteratorJob(j) =>
             IF JobsNamed(j) = {}
             THEN /\ UNCHANGED allVars
                  /\ DeleteIteratorJobResult(j) =
                        [deleted |-> FALSE, reason |-> "Job not found"]
             ELSE \E d \in JobsNamed(j) :
                     IF jobs[d].status \in {"running", "paused"}
                     THEN /\ UNCHANGED allVars
                          /\ DeleteIteratorJobResult(j) =
                                [deleted |-> FALSE, reason |-> "Cannot delete active job"]
                     ELSE /\ jobs[d].status \in {"completed", "failed"}
                          /\ DeleteIteratorJobResult(j).deleted
                          /\ jobs' = [x \in DOMAIN jobs \ {d} |-> jobs[x]]
                          /\ UNCHANGED <<iterSched, steps, completions, procCalls>>
         ]_allVars
    /\ [][\A d \in DOMAIN jobs \ DOMAIN jobs' :
             /\ jobs[d].status \in {"completed", "failed"}
             /\ DeleteIteratorJob(jobs[d].jobId)]_allVars

\* C22 witness: the job completed, onComplete was invoked and the job was
\* deleted
C22_Witness ==
    /\ nextJobDoc = 1
    /\ DOMAIN jobs = {}
    /\ jobCalls = 2
    /\ Len(completions) = 1
    /\ steps = EmptyBag

C25_CreatesNextGeneration ==
    [][IsAddItems =>
          \A d \in {AddedDoc} : \A base \in {batches'[d].baseBatchId} :
             IF { x \in DOMAIN batches : /\ batches[x].baseBatchId = base
                                         /\ batches[x].status = "accumulating" } = {}
             THEN \A seqs \in {{ batches[x].sequence :
                                   x \in { y \in DOMAIN batches :
                                             batches[y].baseBatchId = base } }} :
                  /\ d \notin DOMAIN batches
                  /\ DOMAIN batches' = DOMAIN batches \cup {d}
                  /\ \A x \in DOMAIN batches : batches'[x] = batches[x]
                  /\ batches'[d].status = "accumulating"
                  /\ batches'[d].sequence = IF seqs = {} THEN 0 ELSE Max(seqs) + 1
                  /\ batches'[d].batchId = <<base, batches'[d].sequence>>
                  /\ batches'[d].config = config
                  /\ IF config.flushIntervalMs > 0
                     THEN \E s \in sched' \ sched :
                             /\ { t \in sched' \ sched : t.force } = {s}
                             /\ s.delay = config.flushIntervalMs
                             /\ s.runAt = now + config.flushIntervalMs
                             /\ s.batchDocId = d
                             /\ batches'[d].scheduledFlushId = s.id
                     ELSE /\ { t \in sched' \ sched : t.force } = {}
                          /\ batches'[d].scheduledFlushId = None
             ELSE DOMAIN batches' = DOMAIN batches]_vars

\* C25 witness: the first generation is completed and the next call opened
\* generation 1, whose interval timer is pending with its handle stored
C25_Witness ==
    /\ DOMAIN batches = {1, 2}
    /\ batches[1].status = "completed" /\ batches[1].sequence = 0
    /\ batches[2].status = "accumulating" /\ batches[2].sequence = 1
    /\ batches[2].batchId = <<"e", 1>>
    /\ \E s \in sched : /\ s.id = batches[2].scheduledFlushId
                          /\ s.force /\ s.batchDocId = 2
                          /\ s.delay = config.flushIntervalMs

\* the threshold of a stored batch:
\* batch.config.immediateFlushThreshold ?? batch.config.maxBatchSize
StoredThreshold(d) ==
    IF batches[d].config.immediateFlushThreshold # None
    THEN batches[d].config.immediateFlushThreshold
    ELSE batches[d].config.maxBatchSize

\* doFlushTransition(d, force) has nothing to do: the batch is missing or not
\* accumulating, or it holds no item, or the attempt is unforced and the
\* batch holds fewer items than its threshold
NothingToFlush(d, force) ==
    \/ d \notin DOMAIN batches
    \/ batches[d].status # "accumulating"
    \/ SumOver([c \in DOMAIN batchItems |-> batchItems[c].itemCount],
               { c \in DOMAIN batchItems : batchItems[c].batchDocId = d }) = 0
    \/ /\ ~force
       /\ SumOver([c \in DOMAIN batchItems |-> batchItems[c].itemCount],
                  { c \in DOMAIN batchItems : batchItems[c].batchDocId = d })
             < StoredThreshold(d)

C27_Transition ==
    [][\A s \in sched :
          (Runs(s) /\ ~NothingToFlush(s.batchDocId, s.force)) =>
             \A d \in {s.batchDocId} :
                /\ DoFlushTransitionResult(d, s.force).flushed
                /\ DoFlushTransitionResult(d, s.force).itemCount
                     = SumOver([c \in DOMAIN batchItems |-> batchItems[c].itemCount],
                               { c \in DOMAIN batchItems : batchItems[c].batchDocId = d })
                /\ batches' = [batches EXCEPT ![d].status = "flushing",
                                              ![d].flushStartedAt = now,
                                              ![d].scheduledFlushId = None]
                /\ sched' = { t \in sched \ {s} : t.id # batches[d].scheduledFlushId }
                /\ \A t \in sched' : t.batchDocId = d => t.delay = 0
                /\ flights' = flights (+) SetToBag({NewFlight(d)})
                /\ UNCHANGED <<batchItems, flushHistory, calls, now>>]_vars

\* C27 witness: a call that reached the threshold made the batch flushing
\* before its interval timer was due: the timer is gone, the handle cleared,
\* flushStartedAt set and executeFlush started
C27_Witness ==
    \E d \in DOMAIN batches :
       /\ config.flushIntervalMs > 0
       /\ now = 0
       /\ batches[d].status = "flushing"
       /\ batches[d].flushStartedAt = 0
       /\ batches[d].scheduledFlushId = None
       /\ \A t \in sched : t.batchDocId # d
       /\ NewFlight(d) \in BagToSet(flights)

\* the chunks of document d that stay once the flight f has deleted the ones
\* it flushed
RemainingChunks(f) ==
    ChunksOf(f.batchDocId) \ ChunksBefore(f.batchDocId, CutoffBound(f.flushStartedAt))

\* the completed generation of highest sequence among the documents S
HighestSequence(S) == CHOOSE k \in S : \A o \in S : batches[k].sequence >= batches[o].sequence

EntriesWith(ok) == { i \in 1..Len(flushHistory) : flushHistory[i].success = ok }
Unrecorded == { f \in BagToSet(flights) : f.pc = "record" }

\* C29: an executeFlush invocation always calls processBatch with at least one
\* item and finds its batch when it records; recording appends exactly one
\* flush-history entry, with the batch's baseId, the outcome of that
\* processBatch invocation and the number of items passed to it; no other
\* step changes the history, so the entries count the completed attempts
\* (the failed entries are the failed invocations already recorded, and the
\* item counts add up to the items passed in the recorded invocations).
C29_OneEntryPerAttempt ==
    /\ [](\A f \in BagToSet(flights) :
             /\ f.batchDocId \in DOMAIN batches
             /\ CopiesIn(f, flights) = 1
             /\ f.pc = "record" =>
                  /\ f.items # << >>
                  /\ \A i \in Range(f.items) : calls[i][Len(calls[i])] = f.success)
    /\ [](Cardinality(EntriesWith(FALSE))
             = fails - Cardinality({ f \in Unrecorded : ~f.success }))
    /\ [](SumOver([i \in 1..Len(flushHistory) |-> flushHistory[i].itemCount],
                  1..Len(flushHistory))
             = SumOver([i \in DOMAIN calls |-> Len(calls[i])], DOMAIN calls)
               - SumOver([f \in Unrecorded |-> Len(f.items)], Unrecorded))
    /\ [][/\ \A f \in BagToSet(flights) :
               Records(f)
               => flushHistory' = Append(flushHistory,
                      [batchId |-> batches[f.batchDocId].baseBatchId,
                       itemCount |-> Len(f.items), success |-> f.success])
          /\ flushHistory' # flushHistory
               => \E f \in Unrecorded : flights' = flights (-) SetToBag({f})]_vars

\* C29 witness: two attempts were completed on one batch, the first failed and
\* the second succeeded with the same item; the history holds their two entries
C29_Witness ==
    /\ flights = EmptyBag
    /\ nextBatchDoc = 1
    /\ fails = 1
    /\ Len(calls) = 1
    /\ calls[1] = <<FALSE, TRUE>>
    /\ flushHistory = << [batchId |-> "e", itemCount |-> 1, success |-> FALSE],
                         [batchId |-> "e", itemCount |-> 1, success |-> TRUE] >>

\* the accumulating or flushing generations of a base id
ActiveGenerations(base) ==
    { d \in DOMAIN batches : /\ batches[d].baseBatchId = base
                             /\ batches[d].status \in {"accumulating", "flushing"} }

\* C30: in every reachable state and for a base id or a full id as argument,
\* getBatchStatus returns null when the base id has no accumulating or
\* flushing batch, and otherwise one entry for every accumulating or flushing
\* generation of the base id (the entries match these generations one to
\* one, so none stands for a completed generation), each with the status of
\* its generation and the sum of the counts of its stored chunks.
C30_GetBatchStatus ==
    \A batchId \in BatchIdArgs :
       \A r \in {GetBatchStatus(batchId)} :
       \A active \in {ActiveGenerations(batchId[1])} :
          IF active = {}
          THEN r.null
          ELSE /\ ~r.null
               /\ r.batchId = batchId[1]
               /\ Len(r.batches) = Cardinality(active)
               /\ \E g \in [1..Len(r.batches) -> active] :
                     /\ \A i, j \in 1..Len(r.batches) : g[i] = g[j] => i = j
                     /\ \A i \in 1..Len(r.batches) :
                           /\ r.batches[i].status = batches[g[i]].status
                           /\ r.batches[i].itemCount =
                                SumOver([c \in DOMAIN batchItems |-> batchItems[c].itemCount],
                                        { c \in DOMAIN batchItems :
                                            batchItems[c].batchDocId = g[i] })

\* C30 witness: generation 0 is completed, generation 1 is flushing with one
\* item and generation 2 is accumulating with one; the query reports the
\* flushing and the accumulating one
C30_Witness ==
    /\ \E d \in DOMAIN batches : batches[d].status = "completed"
    /\ ~GetBatchStatus(<<"e">>).null
    /\ GetBatchStatus(<<"e">>).batches =
          << [status |-> "flushing", itemCount |-> 1],
             [status |-> "accumulating", itemCount |-> 1] >>
    /\ GetBatchStatus(<<"e", 0>>) = GetBatchStatus(<<"e">>)

\* the scheduler runs the pending step e
Starts(e) ==
    /\ iterSched' = iterSched (-) SetToBag({e})
    /\ \E out \in Outcomes : ProcessNextBatch(e, out)

\* C31: a loop step that starts when its job is missing or not running ends
\* at once: no callback is invoked, no job changes and nothing is scheduled.
\* Hence while a job is not running and no step of it is in progress, no
\* step of it comes to be in progress and onComplete is not invoked for it.
C31_StopsSilently ==
    /\ [][\A e \in BagToSet(iterSched) :
             (Starts(e) /\ (e.jobDocId \notin DOMAIN jobs
                              \/ jobs[e.jobDocId].status # "running"))
             => /\ iterSched' = iterSched (-) SetToBag({e})
                /\ UNCHANGED <<jobs, steps, procCalls, completions, pages,
                               stepFails, streak>>]_allVars
    /\ [][\A d \in DOMAIN jobs :
             (jobs[d].status # "running" /\ StepsOf(d) = {})
             => /\ { st \in BagToSet(steps') : st.jobDocId = d } = {}
                /\ { i \in 1..Len(completions') : completions'[i].jobDocId = d }
                      = CompletionsOf(d)]_allVars

\* C31 witness: the job was started and paused, and the step scheduled at the
\* start has run since: it invoked nothing and nothing is pending
C31_Witness ==
    \E d \in DOMAIN jobs :
       /\ jobs[d].status = "paused"
       /\ jobs[d] = [NewJob(jobs[d].jobId, jobs[d].config) EXCEPT !.status = "paused"]
       /\ jobCalls = 2
       /\ iterSched = EmptyBag
       /\ steps = EmptyBag
       /\ pages = 0 /\ stepFails = 0 /\ procCalls = 0 /\ completions = << >>

\* an invocation for job d whose getNextBatch or processBatch raised is in
\* its catch block or about to schedule the retry
FailedInProgress(d) ==
    \E st \in StepsOf(d) : st.pc \in {"catch", "retry"} /\ ~st.done

\* a retry of job d is pending: the steps scheduled with a backoff delay
RetryPending(d) ==
    \E e \in BagToSet(iterSched) : e.jobDocId = d /\ e.delay >= BackoffBaseMs

\* C32 as stated: a failed loop step never advances the job, and its retry
\* calls getNextBatch with the cursor of the failed attempt: from the moment
\* the callback raises until the retry starts, no step changes the job's
\* cursor or processedCount.
C32_FailedStepKeepsPosition ==
    [][\A d \in DOMAIN jobs \cap DOMAIN jobs' :
          (FailedInProgress(d) \/ RetryPending(d))
          => /\ jobs'[d].cursor = jobs[d].cursor
             /\ jobs'[d].processedCount = jobs[d].processedCount]_allVars

\* C33 as stated: the step that commits a page whose callbacks returned
\* raises the job's processedCount by exactly the number of items of the
\* page, and no step lowers the processedCount of a job, whatever pause,
\* resume and cancel calls come in between.
C33_ProcessedCountExact ==
    [][\A d \in DOMAIN jobs \cap DOMAIN jobs' :
          /\ jobs'[d].processedCount >= jobs[d].processedCount
          /\ \A st \in StepsOf(d) :
                Commits(st, d)
                => jobs'[d].processedCount = jobs[d].processedCount + st.n]_allVars

\* the loop steps of job d that are pending in the scheduler or in progress
PendingSteps(d) ==
    SumOver([e \in BagToSet(iterSched) |-> CopiesIn(e, iterSched)],
            { e \in BagToSet(iterSched) : e.jobDocId = d })
RunningSteps(d) ==
    SumOver([st \in BagToSet(steps) |-> CopiesIn(st, steps)], StepsOf(d))

\* C34 as stated: for every iterator job at most one loop step is pending in
\* the scheduler or executing at any time, also when pauseIteratorJob is
\* followed by resumeIteratorJob before a scheduled step has run.
C34_SingleChain ==
    \A d \in DOMAIN jobs : PendingSteps(d) + RunningSteps(d) <= 1

\* C35 as stated: when onComplete raised after the job was marked completed,
\* the catch block of that invocation leaves the job as it is (status
\* completed, retryCount and errorMessage unchanged) and the invocation ends
\* without scheduling a retry.
C35_OnCompleteErrorIgnored ==
    [][\A d \in DOMAIN jobs : \A st \in StepsOf(d) :
          (st.done /\ jobs[d].status = "completed" /\ Catches(st, d))
          => /\ jobs'[d] = jobs[d]
             /\ steps' = steps (-) SetToBag({st})
             /\ iterSched' = iterSched]_allVars

\* the job documents that can exist
JobDocs == 1..MaxIterEvents

\* C36 as stated: under weak fairness of the scheduled steps a running job
\* that is not paused, cancelled or deleted eventually is completed or
\* failed, and once a job that was only ever started (no other call of the
\* client was made) is completed or failed no loop step of it is scheduled.
C36_TerminatesAndStops ==
    /\ \A d \in JobDocs :
          (d \in DOMAIN jobs /\ jobs[d].status = "running")
          ~> (d \notin DOMAIN jobs \/ jobs[d].status # "running")
    /\ [](\A d \in DOMAIN jobs :
             (jobCalls = 1 /\ Terminal(jobs[d].status)) => PendingSteps(d) = 0)

\* the interval timers pending for document d in the scheduler S: the forced
\* attempts scheduled with a delay (a manual flush is forced with delay 0)
IntervalTimers(S, d) == { s \in S : s.batchDocId = d /\ s.force /\ s.delay > 0 }

\* C37: for every batch at most one interval timer is pending; a flushing or
\* completed batch has no pending interval timer and no stored timer handle;
\* and when a step arms an interval timer for a batch, no function with the
\* handle the batch stored before is pending any more.
C37_OneIntervalTimer ==
    /\ [](\A d \in DOMAIN batches :
             /\ Cardinality(IntervalTimers(sched, d)) <= 1
             /\ batches[d].status \in {"flushing", "completed"}
                  => /\ IntervalTimers(sched, d) = {}
                     /\ batches[d].scheduledFlushId = None)
    /\ [][\A d \in DOMAIN batches :
             IntervalTimers(sched', d) \ IntervalTimers(sched, d) # {}
             => \A s \in sched : s.id # batches[d].scheduledFlushId]_vars

\* C37 witness: a flush of the batch failed and re-armed the interval timer;
\* the re-armed timer is the only function pending for the batch and the
\* batch stores its handle
C37_Witness ==
    \E d \in DOMAIN batches : \E s \in sched :
        /\ batches[d].status = "accumulating"
        /\ fails = 1
        /\ flights = EmptyBag
        /\ IntervalTimers(sched, d) = {s}
        /\ batches[d].scheduledFlushId = s.id
        /\ s.runAt > batches[d].config.flushIntervalMs

\* the batch documents that can exist
BatchDocs == 1..MaxEvents

ItemsOf(d) == UNION { Range(batchItems[c].items) : c \in ChunksOf(d) }

\* C39: a flushing batch holds no chunk created after its cutoff, and its
\* chunks stay as doFlushTransition counted them until the result is
\* recorded; executeFlush passes to processBatch exactly the items of these
\* chunks, as many as the transition counted; and recording a success
\* deletes of the batch exactly the chunks whose items were delivered.
C39_FlushedWhatWasCounted ==
    /\ [](\A d \in DOMAIN batches :
             batches[d].status = "flushing" =>
                /\ \A c \in ChunksOf(d) :
                      /\ batchItems[c].createdAt <= batches[d].flushStartedAt
                      /\ Len(batchItems[c].items) = batchItems[c].itemCount
                /\ \A f \in FlightsOf(d) :
                      f.pc = "record" =>
                         /\ Range(f.items) = ItemsOf(d)
                         /\ Len(f.items) = TotalCount(d)
                         /\ f.flushStartedAt = batches[d].flushStartedAt)
    /\ [][/\ \A d \in DOMAIN batches :
               (batchItems' # batchItems /\ batches[d].status = "flushing"
                  /\ d \in DOMAIN batches' /\ batches'[d].status = "flushing")
               => \A c \in DOMAIN batchItems \cup DOMAIN batchItems' :
                     (\/ c \in DOMAIN batchItems /\ batchItems[c].batchDocId = d
                      \/ c \in DOMAIN batchItems' /\ batchItems'[c].batchDocId = d)
                     => /\ c \in DOMAIN batchItems \cap DOMAIN batchItems'
                        /\ batchItems'[c] = batchItems[c]
          /\ \A s \in sched : \A d \in {s.batchDocId} :
               (s \notin sched' /\ flights' # flights
                  /\ DoFlushTransitionResult(d, s.force).flushed /\ Runs(s))
               => DoFlushTransitionResult(d, s.force).itemCount
                     = Len(CollectBatchItems(d).items)'
          /\ \A f \in BagToSet(flights) : \A d \in {f.batchDocId} :
               (f.success /\ Records(f))
               => /\ { c \in DOMAIN batchItems \ DOMAIN batchItems' :
                         batchItems[c].batchDocId = d }
                     = { c \in ChunksOf(d) : Range(batchItems[c].items) \subseteq Range(f.items) }
                  /\ \A c \in DOMAIN batchItems' : batchItems'[c].batchDocId # d
         ]_vars

\* C39 witness: two addItems calls of one item each filled the batch, the
\* forced attempt counted 2 and processBatch was given the two items
C39_Witness ==
    \E d \in DOMAIN batches : \E f \in FlightsOf(d) :
        /\ batches[d].status = "flushing"
        /\ Cardinality(ChunksOf(d)) = 2
        /\ TotalCount(d) = 2
        /\ f.pc = "record"
        /\ f.items = <<1, 2>>
        /\ calls = << <<f.success>>, <<f.success>> >>

\* C40: every chunk references a batch document that exists, and a step that
\* deletes a batch document (deleteBatch, pruning after a completion) leaves
\* no chunk of it behind.
C40_NoOrphanChunks ==
    /\ [](\A c \in DOMAIN batchItems : batchItems[c].batchDocId \in DOMAIN batches)
    /\ [][\A d \in DOMAIN batches \ DOMAIN batches' :
             \A c \in DOMAIN batchItems' : batchItems'[c].batchDocId # d]_vars

\* C40 witness: the first batch held one empty chunk and was deleted with it;
\* an addItems call then created the next batch, which holds the only chunk
C40_Witness ==
    /\ nextBatchDoc = 2
    /\ nextChunk = 2
    /\ DOMAIN batches = {2}
    /\ DOMAIN batchItems = {2}
    /\ batchItems[2].batchDocId = 2
    /\ flushHistory = << >>
    /\ flights = EmptyBag

====
